---- MODULE Spec2Model ----
(***************************************************************************)
(* GitHub Repository Explorer.                                             *)
(*                                                                         *)
(* Two state machines share this module:                                   *)
(*   Spec        the React front end (App): filters, search state, the     *)
(*               single cache slot, the memoised canUseCache, the          *)
(*               outstanding fetches and the wall clock;                   *)
(*   ServerSpec  the Express handler GET /api/search with fetchAllPages    *)
(*               against a nondeterministic upstream.                      *)
(*                                                                         *)
(* Strings that the code takes apart (filter values) are sequences of      *)
(* one-character strings; "" is << >>.  A nullable value is a sequence of  *)
(* length 0 (null) or 1.                                                   *)
(***************************************************************************)
EXTENDS Integers, Sequences, FiniteSets, Bags, TLC

VARIABLES
    filters,        \* App: useState<SearchFilters>
    state,          \* App: useState<SearchState>
    cache,          \* App: useState<CacheEntry | null>
    hasSearched,    \* App: useState(false)
    canUseCache,    \* App: the value memoised by useMemo(..., [cache, filters])
    inflight,       \* App: the bag of performSearch calls suspended at `await fetch`
    now,            \* Date.now(), in milliseconds since the page was loaded
    ticks,          \* number of clock advances so far
    fetchCount,     \* number of fetch() calls issued so far
    preClear,       \* history: the outstanding calls issued before the last Clear
    cacheStale,     \* history: the cache entry came from such a call
    query,          \* handler: req.query, the parameters of the request
    pc,             \* handler: idle, start, page (awaiting a page), rate, done
    page,           \* fetchAllPages: the loop variable
    items,          \* fetchAllPages: the accumulated upstream items
    totalCount,     \* fetchAllPages: let totalCount
    incompleteResults, \* fetchAllPages: let incompleteResults
    trimmed,        \* handler: the projected items
    response,       \* handler: the response sent (null before)
    calls,          \* history: the upstream calls made, in order
    fetched,        \* history: the number of items of each page fetched
    firstPage,      \* history: total_count and incomplete_results of page 1
    laterDiffers    \* history: a later page reported other values than page 1

feVars == <<filters, state, cache, hasSearched, canUseCache, inflight, now,
            ticks, fetchCount>>

histVars == <<preClear, cacheStale>>

srvVars == <<query, pc, page, items, totalCount, incompleteResults, trimmed,
             response, calls, fetched, firstPage, laterDiffers>>

----------------------------------------------------------------------------
(* Bounds of the exploration *)

MaxTicks == 1
MaxFetches == 2

----------------------------------------------------------------------------
(* Nullable values and JavaScript's `a || b` *)

Null == << >>
Some(x) == <<x>>
IsNull(o) == Len(o) = 0
Get(o) == o[1]

----------------------------------------------------------------------------
(* types.ts *)

ScalarKeys == {"query", "user", "org", "language", "created", "pushed", "size",
               "stars", "forks", "topics", "license", "is", "archived", "fork"}

SortKeys == {"", "stars", "forks", "help-wanted-issues", "updated", "created"}

OrderKeys == {"asc", "desc"}

FilterKeys == ScalarKeys \cup {"sort", "order"}

initialFilters ==
    [k \in FilterKeys |->
        IF k = "sort" THEN "" ELSE IF k = "order" THEN "desc" ELSE << >>]

\* Key order of the filters object (initialFilters; kept by every spread).
FieldOrder == <<"query", "user", "org", "language", "created", "pushed", "size",
                "stars", "forks", "topics", "license", "is", "archived", "fork",
                "sort", "order">>

IsEmptyValue(k, v) == IF k \in {"sort", "order"} THEN v = "" ELSE v = << >>

\* new Date(s).getTime() on the date strings of the model, in
\* milliseconds.  The instants lie in January 1970 so that the millisecond
\* values and their differences fit the model checker's integers; two of
\* the strings denote the same instant.
DateGetTime(s) ==
    CASE s = "1970-01-02T00:00:00Z" -> 86400000
      [] s = "1970-01-05T12:00:00Z" -> 388800000
      [] s = "1970-01-05T13:00:00+01:00" -> 388800000
      [] s = "1970-01-09T00:00:00Z" -> 691200000

\* A Repository as the server sends it (the trimmed projection).
Repo(id, name, stars, forkCount, createdAt, updatedAt) ==
    [id |-> id, full_name |-> name,
     html_url |-> "https://github.com/" \o name,
     description |-> Null, language |-> Some("c"), topics |-> << >>,
     license |-> Null, created_at |-> createdAt, updated_at |-> updatedAt,
     stargazers_count |-> stars, forks_count |-> forkCount]

RepoA == Repo(1, "a/a", 5, 7, "1970-01-05T12:00:00Z", "1970-01-09T00:00:00Z")
RepoB == Repo(2, "b/b", 9, 7, "1970-01-02T00:00:00Z", "1970-01-05T12:00:00Z")
RepoC == Repo(3, "c/c", 5, 0, "1970-01-05T13:00:00+01:00", "1970-01-05T13:00:00+01:00")

RateLimitA == [limit |-> 30, remaining |-> 29, reset |-> 60]

\* Bodies of successful /api/search responses the front end may receive.
OkResponses ==
    { [status |-> 200, rate_limit |-> Some(RateLimitA), total_count |-> 3,
       incomplete_results |-> FALSE, items |-> <<RepoA, RepoB, RepoC>>],
      [status |-> 200, rate_limit |-> Null, total_count |-> 250,
       incomplete_results |-> TRUE, items |-> <<RepoC, RepoA>>] }

----------------------------------------------------------------------------
(* server/index.ts: buildSearchQuery, on character sequences *)

RECURSIVE Trim(_)
Trim(s) ==
    IF s = << >> THEN s
    ELSE IF Head(s) = " " THEN Trim(Tail(s))
    ELSE IF s[Len(s)] = " " THEN Trim(SubSeq(s, 1, Len(s) - 1))
    ELSE s

\* s.split(sep): the pieces of s between occurrences of the character sep.
RECURSIVE Split(_, _)
Split(s, sep) ==
    IF \A i \in 1..Len(s) : s[i] # sep THEN <<s>>
    ELSE LET i == CHOOSE j \in 1..Len(s) :
                      s[j] = sep /\ \A m \in 1..(j - 1) : s[m] # sep
         IN  <<SubSeq(s, 1, i - 1)>> \o Split(SubSeq(s, i + 1, Len(s)), sep)

\* parts.join(' ')
RECURSIVE Join(_, _)
Join(parts, sep) ==
    IF parts = << >> THEN << >>
    ELSE IF Len(parts) = 1 THEN parts[1]
    ELSE parts[1] \o sep \o Join(Tail(parts), sep)

NonEmpty(s) == s # << >>

MapTrim(parts) == [i \in 1..Len(parts) |-> Trim(parts[i])]

\* A request parameter: undefined (here "") when the key was not sent.
Param(params, k) == IF k \in DOMAIN params THEN params[k] ELSE << >>

\* The characters of a qualifier name.
KeyChars(k) ==
    CASE k = "user" -> <<"u", "s", "e", "r">>
      [] k = "org" -> <<"o", "r", "g">>
      [] k = "language" -> <<"l", "a", "n", "g", "u", "a", "g", "e">>
      [] k = "created" -> <<"c", "r", "e", "a", "t", "e", "d">>
      [] k = "pushed" -> <<"p", "u", "s", "h", "e", "d">>
      [] k = "size" -> <<"s", "i", "z", "e">>
      [] k = "stars" -> <<"s", "t", "a", "r", "s">>
      [] k = "forks" -> <<"f", "o", "r", "k", "s">>
      [] k = "topic" -> <<"t", "o", "p", "i", "c">>
      [] k = "license" -> <<"l", "i", "c", "e", "n", "s", "e">>
      [] k = "is" -> <<"i", "s">>
      [] k = "archived" -> <<"a", "r", "c", "h", "i", "v", "e", "d">>
      [] k = "fork" -> <<"f", "o", "r", "k">>

\* `field:value`
Qualifier(k, v) == KeyChars(k) \o <<":">> \o v

\* Mutant of ScalarPart: an empty field contributes a token too.
ScalarPartAlways(params, k) == <<Qualifier(k, Param(params, k))>>

\* if (params[k]) parts.push(`k:${params[k]}`)
ScalarPart(params, k) ==
    IF NonEmpty(Param(params, k)) THEN <<Qualifier(k, Param(params, k))>> ELSE << >>

RECURSIVE ScalarParts(_, _)
ScalarParts(params, ks) ==
    IF ks = << >> THEN << >>
    ELSE ScalarPart(params, Head(ks)) \o ScalarParts(params, Tail(ks))

\* Mutant of TopicList: entries that are empty after trimming are kept.
TopicListUnfiltered(topics) == MapTrim(Split(topics, ","))

\* topics.split(',').map(t => t.trim()).filter(Boolean)
TopicList(topics) == SelectSeq(MapTrim(Split(topics, ",")), NonEmpty)

TopicParts(params) ==
    IF NonEmpty(Param(params, "topics"))
    THEN LET ts == TopicList(Param(params, "topics"))
         IN  [i \in 1..Len(ts) |-> Qualifier("topic", ts[i])]
    ELSE << >>

QueryPart(params) ==
    IF NonEmpty(Param(params, "query")) THEN <<Param(params, "query")>> ELSE << >>

buildSearchQuery(params) ==
    Join(QueryPart(params)
           \o ScalarParts(params, <<"user", "org", "language", "created",
                                    "pushed", "size", "stars", "forks">>)
           \o TopicParts(params)
           \o ScalarParts(params, <<"license", "is", "archived", "fork">>),
         <<" ">>)

----------------------------------------------------------------------------
(* App: derived values *)

thirtyMinutes == 30 * 60 * 1000

\* { ...filters } with sort and order deleted
OmitSort(f) == [k \in ScalarKeys |-> f[k]]

\* Key order of a filters object without sort and order.
OmitOrder == SubSeq(FieldOrder, 1, Len(FieldOrder) - 2)

\* JSON.stringify of such an object: its key/value pairs in key order.
JSONStringify(obj) == [i \in 1..Len(OmitOrder) |-> <<OmitOrder[i], obj[OmitOrder[i]]>>]

\* Mutant of ComputeCanUseCache: sort and order are not deleted from the
\* copy of the current filters before it is serialised.
ComputeCanUseCacheKeepSort(c, f, t) ==
    IF IsNull(c) THEN FALSE
    ELSE IF t - Get(c).timestamp >= thirtyMinutes THEN FALSE
    ELSE [i \in 1..Len(FieldOrder) |-> <<FieldOrder[i], f[FieldOrder[i]]>>]
           = JSONStringify(Get(c).filters)

\* The body of the canUseCache memo, evaluated at time t.
ComputeCanUseCache(c, f, t) ==
    IF IsNull(c) THEN FALSE
    ELSE IF t - Get(c).timestamp >= thirtyMinutes THEN FALSE
    ELSE JSONStringify(OmitSort(f)) = JSONStringify(Get(c).filters)

\* Mutant of SortCompare: the order is ignored, the comparison is always
\* descending.
SortCompareDescending(f, a, b) ==
    IF f["sort"] \in {"stars", "forks", "updated", "created"}
    THEN LET aVal == CASE f["sort"] = "stars" -> a.stargazers_count
                       [] f["sort"] = "forks" -> a.forks_count
                       [] f["sort"] = "updated" -> DateGetTime(a.updated_at)
                       [] f["sort"] = "created" -> DateGetTime(a.created_at)
             bVal == CASE f["sort"] = "stars" -> b.stargazers_count
                       [] f["sort"] = "forks" -> b.forks_count
                       [] f["sort"] = "updated" -> DateGetTime(b.updated_at)
                       [] f["sort"] = "created" -> DateGetTime(b.created_at)
         IN  bVal - aVal
    ELSE 0

\* The comparator handed to results.sort.
SortCompare(f, a, b) ==
    IF f["sort"] \in {"stars", "forks", "updated", "created"}
    THEN LET aVal == CASE f["sort"] = "stars" -> a.stargazers_count
                       [] f["sort"] = "forks" -> a.forks_count
                       [] f["sort"] = "updated" -> DateGetTime(a.updated_at)
                       [] f["sort"] = "created" -> DateGetTime(a.created_at)
             bVal == CASE f["sort"] = "stars" -> b.stargazers_count
                       [] f["sort"] = "forks" -> b.forks_count
                       [] f["sort"] = "updated" -> DateGetTime(b.updated_at)
                       [] f["sort"] = "created" -> DateGetTime(b.created_at)
         IN  IF f["order"] = "asc" THEN aVal - bVal ELSE bVal - aVal
    ELSE 0

\* Mutant of ArraySort: an unstable sort, which puts equal elements in the
\* reverse of their original order.
ArraySortUnstable(arr, f) ==
    LET n == Len(arr)
        pos == [i \in 1..n |->
                  1 + Cardinality({j \in 1..n :
                        \/ SortCompare(f, arr[j], arr[i]) < 0
                        \/ SortCompare(f, arr[j], arr[i]) = 0 /\ j > i})]
    IN  [p \in 1..n |-> arr[CHOOSE i \in 1..n : pos[i] = p]]

\* results.sort(...) with the comparator of filters f, a consistent one:
\* a stable sort.  The element at index i moves behind every element that
\* compares before it and every equal element that preceded it.
ArraySort(arr, f) ==
    LET n == Len(arr)
        pos == [i \in 1..n |->
                  1 + Cardinality({j \in 1..n :
                        \/ SortCompare(f, arr[j], arr[i]) < 0
                        \/ SortCompare(f, arr[j], arr[i]) = 0 /\ j < i})]
    IN  [p \in 1..n |-> arr[CHOOSE i \in 1..n : pos[i] = p]]

\* The processedResults memo; its dependencies are all of its inputs.
ProcessedResults(can, c, f) ==
    IF ~can \/ IsNull(c) THEN << >>
    ELSE IF f["sort"] # ""
         THEN ArraySort(Get(c).allResults, f)
         ELSE Get(c).allResults

processedResults == ProcessedResults(canUseCache, cache, filters)

\* URLSearchParams built from the non-empty filters.
buildQueryParams(f) ==
    [k \in {x \in DOMAIN f : ~IsEmptyValue(x, f[x])} |-> f[k]]

initialState ==
    [results |-> << >>, loading |-> FALSE, error |-> Null, totalCount |-> 0,
     status |-> Null, rateLimit |-> Null, incompleteResults |-> FALSE]

----------------------------------------------------------------------------
(* What the user can type and what the network can answer *)

EditKeys == {"query"}

EditValues == {<< >>, <<"c">>, <<"g", "o">>}

\* The sort keys offered in the specification that lets the clock run.
SortChoices == {"", "stars", "created"}

\* Steps by which the clock advances between two events.
TickSteps == {thirtyMinutes - 1, thirtyMinutes}

\* A non-2xx answer: the status and the error field of its JSON body.  The
\* handler answers 400 exactly when the built query is empty.
HttpFailures(req) ==
    IF buildSearchQuery(buildQueryParams(req.filters)) = << >>
    THEN {[kind |-> "http", status |-> 400, error |-> "Search query is required"]}
    ELSE {[kind |-> "http", status |-> 403, error |-> "API rate limit exceeded"]}

\* fetch or res.json() throwing.
ThrownFailures == {[kind |-> "thrown", status |-> 0, error |-> "Failed to fetch"]}

\* e.message || 'Search failed'
ErrorMessage(fl) ==
    LET message == IF fl.kind = "http"
                   THEN "HTTP " \o ToString(fl.status) \o ": "
                          \o (IF fl.error # "" THEN fl.error ELSE "Request failed")
                   ELSE fl.error
    IN  IF message # "" THEN message ELSE "Search failed"

----------------------------------------------------------------------------
(* App: initial state and event handlers *)

FeInit ==
    /\ filters = initialFilters
    /\ state = initialState
    /\ cache = Null
    /\ hasSearched = FALSE
    /\ canUseCache = FALSE
    /\ inflight = EmptyBag
    /\ now = 0
    /\ ticks = 0
    /\ fetchCount = 0

\* Date.now() moves on.
Tick ==
    /\ ticks < MaxTicks
    /\ \E d \in TickSteps : now' = now + d
    /\ ticks' = ticks + 1
    /\ UNCHANGED <<filters, state, cache, hasSearched, canUseCache, inflight,
                   fetchCount>>

\* Mutant of UpdateFilterTo: the memo does not depend on filters, so a
\* filter change leaves canUseCache as it was.
UpdateFilterToKeepMemo(key, value) ==
    /\ value # filters[key]
    /\ filters' = [filters EXCEPT ![key] = value]
    /\ UNCHANGED <<canUseCache, state, cache, hasSearched, inflight, now, ticks,
                   fetchCount>>

\* updateFilter(key, value), followed by the render it causes.
UpdateFilterTo(key, value) ==
    /\ value # filters[key]
    /\ filters' = [filters EXCEPT ![key] = value]
    /\ canUseCache' = ComputeCanUseCache(cache, filters', now)
    /\ UNCHANGED <<state, cache, hasSearched, inflight, now, ticks, fetchCount>>

\* Typing in a text input.
EditText == \E key \in EditKeys, value \in EditValues : UpdateFilterTo(key, value)

\* The Sort select, offering `choices`.
SelectSort(choices) == \E value \in choices : UpdateFilterTo("sort", value)

\* The Order select.
SelectOrder == \E value \in OrderKeys : UpdateFilterTo("order", value)

\* performSearch, first branch: served from the cache.
SearchFromCache ==
    /\ canUseCache /\ ~IsNull(cache)
    /\ state' = [results |-> processedResults,
                 loading |-> FALSE,
                 error |-> Null,
                 totalCount |-> Get(cache).totalCount,
                 status |-> Get(cache).status,
                 rateLimit |-> Get(cache).rateLimit,
                 incompleteResults |-> Get(cache).incompleteResults]
    /\ hasSearched' = TRUE
    /\ UNCHANGED <<filters, cache, canUseCache, inflight, now, ticks, fetchCount>>

\* performSearch, second branch, up to `await fetch`.
SearchFromNetwork ==
    /\ ~(canUseCache /\ ~IsNull(cache))
    /\ fetchCount < MaxFetches
    /\ state' = [state EXCEPT !.loading = TRUE, !.error = Null]
    /\ inflight' = inflight (+) SetToBag({[filters |-> OmitSort(filters)]})
    /\ fetchCount' = fetchCount + 1
    /\ UNCHANGED <<filters, cache, hasSearched, canUseCache, now, ticks>>

performSearch == SearchFromCache \/ SearchFromNetwork

\* The Search button, disabled while loading.
ClickSearch == ~state.loading /\ performSearch

\* Enter in any text input.
PressEnter == performSearch

\* Mutant of ResolveOk: a response that arrives while another search is
\* outstanding is dropped.
ResolveOkUnlessRacing(req, json) ==
    /\ IF BagCardinality(inflight) > 1
       THEN UNCHANGED <<cache, state, hasSearched, canUseCache>>
       ELSE /\ cache' = Some([filters |-> req.filters,
                              allResults |-> json.items,
                              totalCount |-> json.total_count,
                              timestamp |-> now,
                              rateLimit |-> json.rate_limit,
                              status |-> Some(json.status),
                              incompleteResults |-> json.incomplete_results])
            /\ state' = [results |-> json.items,
                         loading |-> FALSE,
                         error |-> Null,
                         totalCount |-> json.total_count,
                         status |-> Some(json.status),
                         rateLimit |-> json.rate_limit,
                         incompleteResults |-> json.incomplete_results]
            /\ hasSearched' = TRUE
            /\ canUseCache' = ComputeCanUseCache(cache', filters, now)
    /\ inflight' = inflight (-) SetToBag({req})
    /\ UNCHANGED <<filters, now, ticks, fetchCount>>

\* Mutant of ResolveOk: the entry stores the filters current at the time
\* of the response instead of those the request was built from.
ResolveOkCurrentFilters(req, json) ==
    /\ cache' = Some([filters |-> OmitSort(filters),
                      allResults |-> json.items,
                      totalCount |-> json.total_count,
                      timestamp |-> now,
                      rateLimit |-> json.rate_limit,
                      status |-> Some(json.status),
                      incompleteResults |-> json.incomplete_results])
    /\ state' = [results |-> json.items,
                 loading |-> FALSE,
                 error |-> Null,
                 totalCount |-> json.total_count,
                 status |-> Some(json.status),
                 rateLimit |-> json.rate_limit,
                 incompleteResults |-> json.incomplete_results]
    /\ hasSearched' = TRUE
    /\ canUseCache' = ComputeCanUseCache(cache', filters, now)
    /\ inflight' = inflight (-) SetToBag({req})
    /\ UNCHANGED <<filters, now, ticks, fetchCount>>

\* performSearch resumed with an ok response: lines 192-216.
ResolveOk(req, json) ==
    LET allResults == json.items
    IN  /\ cache' = Some([filters |-> req.filters,
                          allResults |-> allResults,
                          totalCount |-> json.total_count,
                          timestamp |-> now,
                          rateLimit |-> json.rate_limit,
                          status |-> Some(json.status),
                          incompleteResults |-> json.incomplete_results])
        /\ state' = [results |-> allResults,
                     loading |-> FALSE,
                     error |-> Null,
                     totalCount |-> json.total_count,
                     status |-> Some(json.status),
                     rateLimit |-> json.rate_limit,
                     incompleteResults |-> json.incomplete_results]
        /\ hasSearched' = TRUE
        /\ canUseCache' = ComputeCanUseCache(cache', filters, now)
        /\ inflight' = inflight (-) SetToBag({req})
        /\ UNCHANGED <<filters, now, ticks, fetchCount>>

\* Mutant of ResolveError: the catch block replaces the state instead of
\* updating it, which empties the results.
ResolveErrorReset(req, fl) ==
    /\ state' = [initialState EXCEPT !.error = Some(ErrorMessage(fl))]
    /\ inflight' = inflight (-) SetToBag({req})
    /\ UNCHANGED <<filters, cache, hasSearched, canUseCache, now, ticks, fetchCount>>

\* performSearch resumed in its catch block: line 218.
ResolveError(req, fl) ==
    /\ state' = [state EXCEPT !.loading = FALSE, !.error = Some(ErrorMessage(fl))]
    /\ inflight' = inflight (-) SetToBag({req})
    /\ UNCHANGED <<filters, cache, hasSearched, canUseCache, now, ticks, fetchCount>>

\* The response to req arrives and is ok.  The handler answers 200 only
\* when the built query is not empty.
FetchOkOf(req) ==
    /\ buildSearchQuery(buildQueryParams(req.filters)) # << >>
    /\ \E json \in OkResponses : ResolveOk(req, json)

\* The request req fails.
FetchFailOf(req) ==
    \E fl \in HttpFailures(req) \cup ThrownFailures : ResolveError(req, fl)

FetchOk == \E req \in BagToSet(inflight) : FetchOkOf(req)

FetchFail == \E req \in BagToSet(inflight) : FetchFailOf(req)

\* Mutant of Clear: the results on display are kept.
ClearKeepResults ==
    /\ filters' = initialFilters
    /\ state' = [state EXCEPT !.totalCount = 0, !.error = Null, !.status = Null]
    /\ cache' = Null
    /\ hasSearched' = FALSE
    /\ canUseCache' = ComputeCanUseCache(cache', filters', now)
    /\ UNCHANGED <<inflight, now, ticks, fetchCount>>

\* The Clear button.
Clear ==
    /\ filters' = initialFilters
    /\ state' = [state EXCEPT !.results = << >>, !.totalCount = 0,
                              !.error = Null, !.status = Null]
    /\ cache' = Null
    /\ hasSearched' = FALSE
    /\ canUseCache' = ComputeCanUseCache(cache', filters', now)
    /\ UNCHANGED <<inflight, now, ticks, fetchCount>>

----------------------------------------------------------------------------
(* History of Clear: which outstanding calls were issued before the last   *)
(* Clear, and whether the cache entry came from one of them.               *)

NoHistory == UNCHANGED <<histVars, srvVars>>

\* Whether a copy of req issued before the last Clear (stale) or after it
\* is outstanding.
Outstanding(req, stale) ==
    IF stale THEN BagIn(req, preClear)
    ELSE CopiesIn(req, inflight) > CopiesIn(req, preClear)

Settled(req, stale) == IF stale THEN preClear (-) SetToBag({req}) ELSE preClear

TrackedFetchOk ==
    \E req \in BagToSet(inflight), stale \in BOOLEAN :
        /\ Outstanding(req, stale)
        /\ FetchOkOf(req)
        /\ preClear' = Settled(req, stale)
        /\ cacheStale' = stale

TrackedFetchFail ==
    \E req \in BagToSet(inflight), stale \in BOOLEAN :
        /\ Outstanding(req, stale)
        /\ FetchFailOf(req)
        /\ preClear' = Settled(req, stale)
        /\ UNCHANGED cacheStale

TrackedClear ==
    /\ Clear
    /\ preClear' = inflight
    /\ cacheStale' = FALSE

----------------------------------------------------------------------------
(* server/index.ts: the upstream service *)

perPage == 100
maxPages == 10

CreatedDates == <<"1970-01-05T12:00:00Z", "1970-01-02T00:00:00Z",
                  "1970-01-05T13:00:00+01:00", "1970-01-09T00:00:00Z">>

\* The upstream repository record number id: the fields the handler
\* keeps and some it drops.
UpstreamRepo(id) ==
    [id |-> id,
     node_id |-> "R_" \o ToString(id),
     full_name |-> "o/r" \o ToString(id),
     html_url |-> "https://github.com/o/r" \o ToString(id),
     description |-> IF id % 2 = 0 THEN Null ELSE Some("d"),
     language |-> Some("c"),
     topics |-> << >>,
     license |-> IF id % 3 = 0 THEN Null
                 ELSE Some([key |-> "mit", name |-> "MIT License"]),
     created_at |-> CreatedDates[(id % 4) + 1],
     updated_at |-> CreatedDates[((id + 1) % 4) + 1],
     stargazers_count |-> id % 7,
     forks_count |-> id % 5,
     watchers_count |-> id % 7]

\* The n items upstream returns as page p.
PageItems(p, n) == [i \in 1..n |-> UpstreamRepo((p - 1) * perPage + i)]

\* Lengths a page may have.
PageLens == {0, perPage \div 2, perPage - 1, perPage}

\* total_count and incomplete_results a page may report.
PageMetas == {[total_count |-> 250, incomplete_results |-> FALSE],
              [total_count |-> 1001, incomplete_results |-> TRUE]}

\* Errors an upstream call may throw: with a numeric status, or without.
UpstreamErrors == {[status |-> Some(403), message |-> "API rate limit exceeded"],
                   [status |-> Null, message |-> "socket hang up"],
                   [status |-> Null, message |-> ""]}

UpstreamRates == {[limit |-> 30, remaining |-> 29, reset |-> 60]}

----------------------------------------------------------------------------
(* server/index.ts: fetchAllPages and the handler of GET /api/search *)

\* sort = '' and order = 'desc' when the parameter is absent
SortOf(params) == IF "sort" \in DOMAIN params THEN params["sort"] ELSE ""
OrderOf(params) == IF "order" \in DOMAIN params THEN params["order"] ELSE "desc"

\* The parameters of one octokit.rest.search.repos call.
SearchCall(q, sort, order, p) ==
    [kind |-> "search", q |-> q, order |-> order, per_page |-> perPage,
     page |-> p,
     sort |-> IF sort # "" /\ sort # "created" THEN Some(sort) ELSE Null]

RateCall == [kind |-> "rate"]

\* The creation times of items, as a set, in ascending or descending order.
RECURSIVE TimesInOrder(_, _)
TimesInOrder(ts, order) ==
    IF ts = {} THEN << >>
    ELSE LET first == IF order = "asc"
                      THEN CHOOSE t \in ts : \A u \in ts : t <= u
                      ELSE CHOOSE t \in ts : \A u \in ts : t >= u
         IN  <<first>> \o TimesInOrder(ts \ {first}, order)

RECURSIVE Flatten(_)
Flatten(ss) == IF ss = << >> THEN << >> ELSE Head(ss) \o Flatten(Tail(ss))

\* Mutant of SortCreated: the requested order is ignored, the sort is
\* always descending.
SortCreatedDescending(its, order) ==
    LET ts == TimesInOrder({DateGetTime(its[i].created_at) : i \in 1..Len(its)}, "desc")
    IN  Flatten([k \in 1..Len(ts) |->
                    SelectSeq(its, LAMBDA r : DateGetTime(r.created_at) = ts[k])])

\* items.sort((a, b) => order === 'asc' ? aT - bT : bT - aT): the sort is
\* stable, so the result is the items of each creation time, in their
\* original order, one time after the other.
SortCreated(its, order) ==
    LET ts == TimesInOrder({DateGetTime(its[i].created_at) : i \in 1..Len(its)}, order)
    IN  Flatten([k \in 1..Len(ts) |->
                    SelectSeq(its, LAMBDA r : DateGetTime(r.created_at) = ts[k])])

\* The projection of one item.
TrimRepo(r) ==
    [id |-> r.id, full_name |-> r.full_name, html_url |-> r.html_url,
     description |-> r.description, language |-> r.language,
     topics |-> r.topics,
     license |-> IF ~IsNull(r.license) THEN Some([name |-> Get(r.license).name])
                 ELSE Null,
     created_at |-> r.created_at, updated_at |-> r.updated_at,
     stargazers_count |-> r.stargazers_count, forks_count |-> r.forks_count]

TrimAll(its) == [i \in 1..Len(its) |-> TrimRepo(its[i])]

\* Requests the handler receives.
Torvalds == <<"t", "o", "r", "v", "a", "l", "d", "s">>

ServerRequests ==
    { buildQueryParams([f EXCEPT !["sort"] = srt, !["order"] = ord]) :
        f \in { initialFilters,
                [initialFilters EXCEPT !["topics"] = <<" ", ",", " ">>],
                [initialFilters EXCEPT !["user"] = Torvalds, !["language"] = <<"c">>] },
        srt \in {"", "stars", "created"},
        ord \in OrderKeys }
    \cup { [user |-> Torvalds] }

ServerIdle ==
    /\ query = << >>
    /\ pc = "idle"
    /\ page = 0
    /\ items = << >>
    /\ totalCount = 0
    /\ incompleteResults = FALSE
    /\ trimmed = << >>
    /\ response = Null
    /\ calls = << >>
    /\ fetched = << >>
    /\ firstPage = Null
    /\ laterDiffers = FALSE

\* A request arrives.
ServerInit ==
    /\ query \in ServerRequests
    /\ pc = "start"
    /\ page = 0
    /\ items = << >>
    /\ totalCount = 0
    /\ incompleteResults = FALSE
    /\ trimmed = << >>
    /\ response = Null
    /\ calls = << >>
    /\ fetched = << >>
    /\ firstPage = Null
    /\ laterDiffers = FALSE

ErrorResponse(status, message) ==
    Some([status |-> status, body |-> [error |-> message, status |-> status]])

\* The handler up to its first await: the query is built and either
\* rejected or handed to fetchAllPages, which requests page 1.
Handle ==
    /\ pc = "start"
    /\ LET q == buildSearchQuery(query)
       IN  IF q = << >>
           THEN /\ response' = ErrorResponse(400, "Search query is required")
                /\ pc' = "done"
                /\ UNCHANGED <<page, calls>>
           ELSE /\ page' = 1
                /\ calls' = Append(calls, SearchCall(q, SortOf(query), OrderOf(query), 1))
                /\ pc' = "page"
                /\ UNCHANGED response
    /\ UNCHANGED <<query, items, totalCount, incompleteResults, trimmed, fetched,
                   firstPage, laterDiffers>>

\* Mutant of FinalItems: the items are sorted by creation time whatever
\* the sort key.
FinalItemsSorted(its, sort, order) == SortCreated(its, order)

\* What fetchAllPages returns as items once the loop has ended.
FinalItems(its, sort, order) ==
    IF sort = "created" THEN SortCreated(its, order) ELSE its

\* Mutant of FirstPageOnly: every page overwrites the value.
EveryPage(p, new, old) == new

\* if (page === 1) { ... = resp.data... }: the value a metadata variable
\* has after page p reported new.
FirstPageOnly(p, new, old) == IF p = 1 THEN new ELSE old

\* Mutant of LoopContinues: a short page does not break the loop.
LoopIgnoresShort(p, n) == p + 1 <= maxPages

\* After page p came with n items: no break, and page++ leaves
\* page <= maxPages true.
LoopContinues(p, n) == ~(n < perPage) /\ p + 1 <= maxPages

\* The awaited page arrives with n items and metadata meta; the loop body
\* runs, then either the next page is requested or the loop ends, the
\* items are sorted and projected, and the rate limit is requested.
PageOk(n, meta) ==
    LET data == [total_count |-> meta.total_count,
                 incomplete_results |-> meta.incomplete_results,
                 items |-> PageItems(page, n)]
        pushed == items \o data.items
        short == Len(data.items) < perPage
    IN  /\ pc = "page"
        /\ totalCount' = FirstPageOnly(page, data.total_count, totalCount)
        /\ incompleteResults' =
               FirstPageOnly(page, data.incomplete_results, incompleteResults)
        /\ fetched' = Append(fetched, n)
        /\ firstPage' = IF page = 1 THEN Some(meta) ELSE firstPage
        /\ laterDiffers' = (laterDiffers \/ (page > 1 /\ Some(meta) # firstPage))
        /\ IF LoopContinues(page, Len(data.items))
           THEN /\ items' = pushed
                /\ page' = page + 1
                /\ calls' = Append(calls, SearchCall(buildSearchQuery(query),
                                     SortOf(query), OrderOf(query), page + 1))
                /\ UNCHANGED <<pc, trimmed>>
           ELSE /\ items' = FinalItems(pushed, SortOf(query), OrderOf(query))
                /\ page' = IF short THEN page ELSE page + 1
                /\ trimmed' = TrimAll(items')
                /\ calls' = Append(calls, RateCall)
                /\ pc' = "rate"
        /\ UNCHANGED <<query, response>>

FetchPage == \E n \in PageLens, meta \in PageMetas : PageOk(n, meta)

\* Mutant of CatchResponse: every failure is answered 500.
CatchResponse500(err) ==
    ErrorResponse(500, IF err.message # "" THEN err.message ELSE "Internal server error")

\* const message = err?.message || 'Internal server error'
\* const status = typeof err?.status === 'number' ? err.status : 500
CatchResponse(err) ==
    ErrorResponse(IF ~IsNull(err.status) THEN Get(err.status) ELSE 500,
                  IF err.message # "" THEN err.message ELSE "Internal server error")

\* The awaited page request throws: the handler's catch answers.
PageError(err) ==
    /\ pc = "page"
    /\ response' = CatchResponse(err)
    /\ pc' = "done"
    /\ UNCHANGED <<query, page, items, totalCount, incompleteResults, trimmed,
                   calls, fetched, firstPage, laterDiffers>>

FailPage == \E err \in UpstreamErrors : PageError(err)

OkResponse(rateLimit) ==
    Some([status |-> 200,
          body |-> [status |-> 200,
                    rate_limit |-> rateLimit,
                    total_count |-> totalCount,
                    incomplete_results |-> incompleteResults,
                    items |-> trimmed]])

\* The rate limit arrives and the handler answers.
RateOk ==
    /\ pc = "rate"
    /\ \E rate \in UpstreamRates :
           response' = OkResponse(Some([limit |-> rate.limit,
                                        remaining |-> rate.remaining,
                                        reset |-> rate.reset]))
    /\ pc' = "done"
    /\ UNCHANGED <<query, page, items, totalCount, incompleteResults, trimmed,
                   calls, fetched, firstPage, laterDiffers>>

\* Mutant of RateError: the failure of the rate limit request reaches the
\* handler's catch.
RateErrorFatal ==
    /\ pc = "rate"
    /\ response' = CatchResponse([status |-> Null, message |-> ""])
    /\ pc' = "done"
    /\ UNCHANGED <<query, page, items, totalCount, incompleteResults, trimmed,
                   calls, fetched, firstPage, laterDiffers>>

\* The rate limit request throws; the inner catch ignores it.
RateError ==
    /\ pc = "rate"
    /\ response' = OkResponse(Null)
    /\ pc' = "done"
    /\ UNCHANGED <<query, page, items, totalCount, incompleteResults, trimmed,
                   calls, fetched, firstPage, laterDiffers>>

----------------------------------------------------------------------------
(* Specifications of the App *)

vars == <<feVars, histVars, srvVars>>

Init ==
    /\ FeInit
    /\ preClear = EmptyBag
    /\ cacheStale = FALSE
    /\ ServerIdle

\* The App with the clock, the Sort select restricted to SortChoices.
Next ==
    \/ Tick /\ NoHistory
    \/ EditText /\ NoHistory
    \/ SelectSort(SortChoices) /\ NoHistory
    \/ SelectOrder /\ NoHistory
    \/ ClickSearch /\ NoHistory
    \/ PressEnter /\ NoHistory
    \/ FetchOk /\ NoHistory
    \/ FetchFail /\ NoHistory
    \/ Clear /\ NoHistory

Spec == Init /\ [][Next]_vars

\* The App with every sort key, the clock standing still.
SortNext ==
    \/ EditText /\ NoHistory
    \/ SelectSort(SortKeys) /\ NoHistory
    \/ SelectOrder /\ NoHistory
    \/ ClickSearch /\ NoHistory
    \/ PressEnter /\ NoHistory
    \/ FetchOk /\ NoHistory
    \/ FetchFail /\ NoHistory
    \/ Clear /\ NoHistory

SortSpec == Init /\ [][SortNext]_vars

\* The App with the history of Clear, the clock standing still.
ClearNext ==
    \/ EditText /\ NoHistory
    \/ SelectSort(SortChoices) /\ NoHistory
    \/ ClickSearch /\ NoHistory
    \/ PressEnter /\ NoHistory
    \/ TrackedFetchOk /\ UNCHANGED srvVars
    \/ TrackedFetchFail /\ UNCHANGED srvVars
    \/ TrackedClear /\ UNCHANGED srvVars

ClearSpec == Init /\ [][ClearNext]_vars

----------------------------------------------------------------------------
(* Specification of the handler *)

ServerOnly == UNCHANGED <<feVars, histVars>>

ServerNext ==
    \/ Handle /\ ServerOnly
    \/ FetchPage /\ ServerOnly
    \/ FailPage /\ ServerOnly
    \/ RateOk /\ ServerOnly
    \/ RateError /\ ServerOnly

ServerStart ==
    /\ FeInit
    /\ preClear = EmptyBag
    /\ cacheStale = FALSE
    /\ ServerInit

ServerSpec == ServerStart /\ [][ServerNext]_vars

----------------------------------------------------------------------------
(* Specification of the query builder: the handler's first step, on every *)
(* combination of empty and non-empty scalar fields and on a range of     *)
(* topics values.                                                         *)

\* The value a field has when it is not empty.
FieldValue(k) ==
    CASE k = "query" -> <<"g", "o">>
      [] k = "user" -> Torvalds
      [] k = "language" -> <<"c">>
      [] k \in {"created", "pushed"} -> <<">", "2", "0", "2", "4">>
      [] k \in {"size", "stars", "forks"} -> <<">", "1">>
      [] k = "license" -> <<"m", "i", "t">>
      [] k = "archived" -> <<"n", "o">>
      [] OTHER -> <<"x">>

\* Values of the topics field.
TopicsValues ==
    { <<"m", "l">>, <<"m", "l", ",", "m", "l">>, <<"m", "l", ",", " ", "m", "l">>,
      <<"m", "l", ",", "r", "l">>, <<" ", "r", "l", " ", ",", ",", "m", "l">>,
      <<" ", ",", " ">> }

BuilderRequests ==
    { buildQueryParams([k \in ScalarKeys |-> IF k \in set THEN FieldValue(k) ELSE << >>]) :
        set \in SUBSET (ScalarKeys \ {"topics"}) }
    \cup
    { buildQueryParams([k \in ScalarKeys |->
                          IF k = "topics" THEN tv
                          ELSE IF k \in set THEN FieldValue(k) ELSE << >>]) :
        tv \in TopicsValues, set \in SUBSET {"forks", "license"} }

BuilderInit ==
    /\ query \in BuilderRequests
    /\ pc = "start"
    /\ page = 0
    /\ items = << >>
    /\ totalCount = 0
    /\ incompleteResults = FALSE
    /\ trimmed = << >>
    /\ response = Null
    /\ calls = << >>
    /\ fetched = << >>
    /\ firstPage = Null
    /\ laterDiffers = FALSE

BuilderStart ==
    /\ FeInit
    /\ preClear = EmptyBag
    /\ cacheStale = FALSE
    /\ BuilderInit

BuilderNext == Handle /\ ServerOnly

BuilderSpec == BuilderStart /\ [][BuilderNext]_vars

----------------------------------------------------------------------------
(* Properties of the cache (App) *)

\* The cache holds an entry for the current filters, sort and order aside,
\* captured less than thirty minutes ago.
FreshMatch ==
    /\ ~IsNull(cache)
    /\ \A k \in ScalarKeys : filters[k] = Get(cache).filters[k]
    /\ now - Get(cache).timestamp < 30 * 60 * 1000

\* A step of performSearch that issues no request and shows the entry.
ServedFromCache ==
    /\ fetchCount' = fetchCount
    /\ inflight' = inflight
    /\ Len(state'.results) = Len(Get(cache).allResults)
    /\ state'.totalCount = Get(cache).totalCount
    /\ ~state'.loading

\* A step of performSearch that issues one request and shows nothing new.
SentToNetwork ==
    /\ fetchCount' = fetchCount + 1
    /\ BagCardinality(inflight') = BagCardinality(inflight) + 1
    /\ state'.results = state.results
    /\ state'.loading

\* C1: a search triggered while the cache holds a fresh entry for the
\* current filters (sort and order aside) is served from the cache and
\* issues no request, whatever sort and order have been selected since.
C1_CacheHit == [][(performSearch /\ FreshMatch) => ServedFromCache]_vars

\* A re-sorted view of the only response ever fetched is on display, at a
\* later time than that of its capture: a cache hit after a sort change.
C1_Witness ==
    /\ FreshMatch
    /\ fetchCount = 1
    /\ BagCardinality(inflight) = 0
    /\ now > Get(cache).timestamp
    /\ filters["sort"] # ""
    /\ Len(state.results) = Len(Get(cache).allResults)
    /\ state.results # Get(cache).allResults

\* C2: a search triggered thirty minutes or more after the entry was
\* captured issues a request.
C2_Expiry ==
    [][(performSearch /\ ~IsNull(cache)
          /\ now - Get(cache).timestamp >= 30 * 60 * 1000)
       => fetchCount' = fetchCount + 1]_vars

\* C3: a search triggered while a scalar filter differs from the entry's
\* goes to the network and leaves the displayed results alone; with the
\* filter changed back within the window it is served from the cache.
C3_MissOnChange ==
    [][performSearch =>
         /\ (~IsNull(cache) /\ OmitSort(filters) # Get(cache).filters) => SentToNetwork
         /\ FreshMatch => ServedFromCache]_vars

\* The second request is outstanding for filters other than the entry's:
\* it was issued, after the entry was stored, by a search that missed.
C3_Witness ==
    /\ ~IsNull(cache)
    /\ fetchCount = 2
    /\ state.loading
    /\ inflight = SetToBag({[filters |-> OmitSort(filters)]})
    /\ OmitSort(filters) # Get(cache).filters

\* C4: once Clear has been pressed, no search is served from an entry that
\* stems from a request issued before it: such a search goes to the network.
C4_ClearInvalidates ==
    [][(performSearch /\ ~IsNull(cache) /\ cacheStale)
       => fetchCount' = fetchCount + 1]_vars

\* C5: right after Clear the filters are the defaults, the cache is empty
\* and every displayed field of the search state has its initial value.
C5_ClearResets ==
    [][Clear =>
         /\ filters' = initialFilters
         /\ IsNull(cache')
         /\ state'.results = << >>
         /\ state'.totalCount = 0
         /\ IsNull(state'.error)
         /\ IsNull(state'.status)
         /\ IsNull(state'.rateLimit)
         /\ ~state'.incompleteResults]_vars

\* The displayed results, count, status, rate limit and incomplete flag.
Displayed(st) ==
    <<st.results, st.totalCount, st.status, st.rateLimit, st.incompleteResults>>

\* C6: a search that goes to the network and fails leaves the displayed
\* results, count, status, rate limit and incomplete flag, and the cache
\* entry, as they were, both when it starts and when it fails; failing sets
\* the error message and clears the loading flag.
C6_FailedSearch ==
    [][/\ (SearchFromNetwork \/ FetchFail) =>
             (Displayed(state') = Displayed(state) /\ cache' = cache)
       /\ FetchFail => (~IsNull(state'.error) /\ ~state'.loading)]_vars

\* An error is shown over the results of an earlier successful search whose
\* cache entry is still there.
C6_Witness ==
    /\ ~IsNull(state.error)
    /\ ~state.loading
    /\ state.results # << >>
    /\ ~IsNull(cache)
    /\ state.results = Get(cache).allResults

\* The value a recognised sort key orders by.
SortValue(key, r) ==
    CASE key = "stars" -> r.stargazers_count
      [] key = "forks" -> r.forks_count
      [] key = "updated" -> DateGetTime(r.updated_at)
      [] key = "created" -> DateGetTime(r.created_at)

\* s is ordered by the value of key, ascending for asc, else descending.
OrderedBy(s, key, order) ==
    \A i, j \in 1..Len(s) :
        i < j => IF order = "asc"
                 THEN SortValue(key, s[i]) <= SortValue(key, s[j])
                 ELSE SortValue(key, s[i]) >= SortValue(key, s[j])

Occurrences(s, x) == Cardinality({i \in 1..Len(s) : s[i] = x})

\* s and t hold the same items the same number of times.
IsPermutation(s, t) ==
    /\ Len(s) = Len(t)
    /\ \A i \in 1..Len(t) : Occurrences(s, t[i]) = Occurrences(t, t[i])

\* C7: a search served from the cache under sort key stars, forks, updated
\* or created displays a permutation of the cached items ordered by that
\* key in the requested direction and the cached total count, and leaves
\* the cache entry as it was.
C7_Resort ==
    [][(SearchFromCache /\ filters["sort"] \in {"stars", "forks", "updated", "created"})
       => /\ IsPermutation(state'.results, Get(cache).allResults)
          /\ OrderedBy(state'.results, filters["sort"], filters["order"])
          /\ state'.totalCount = Get(cache).totalCount
          /\ cache' = cache]_vars

\* Three cached items are on display in ascending order of the current
\* sort key, which is not the order they were stored in.
C7_Witness ==
    /\ FreshMatch
    /\ filters["sort"] \in {"stars", "forks", "updated", "created"}
    /\ filters["order"] = "asc"
    /\ Len(state.results) = 3
    /\ state.results # Get(cache).allResults
    /\ IsPermutation(state.results, Get(cache).allResults)
    /\ OrderedBy(state.results, filters["sort"], "asc")

----------------------------------------------------------------------------
(* Properties of the pager (server) *)

\* The search calls made so far, in the order they were made.
SearchCalls == SelectSeq(calls, LAMBDA c : c.kind = "search")

\* The handler has answered 200.
Answered200 == ~IsNull(response) /\ Get(response).status = 200

\* C8: the pages requested for one search are 1, 2, ..., k in that order,
\* none twice; a page is requested only once every earlier page has
\* resolved, and resolved full; and once the search has succeeded, k is the
\* first page with fewer than 100 items, or 10 if no page was short.
C8_Pagination ==
    /\ \A i \in 1..Len(SearchCalls) : SearchCalls[i].page = i
    /\ Len(SearchCalls) <= 10
    /\ Len(SearchCalls) <= Len(fetched) + 1
    /\ \A i \in 2..Len(SearchCalls) : fetched[i - 1] = 100
    /\ pc \in {"rate", "done"} /\ Len(fetched) > 0 /\ (pc = "done" => Answered200)
          => /\ Len(SearchCalls) = Len(fetched)
             /\ fetched[Len(fetched)] < 100 \/ Len(fetched) = 10

\* A search that stopped at a short third page has been answered.
C8_Witness ==
    /\ Answered200
    /\ fetched = <<100, 100, 99>>
    /\ Len(SearchCalls) = 3

\* The ids of a sequence of items.
Ids(its) == [i \in 1..Len(its) |-> its[i].id]

\* C9: the total_count and incomplete_results of a successful answer are
\* those the first page reported, whatever later pages reported.
C9_PageOneMetadata ==
    Answered200 =>
        /\ Get(response).body.total_count = Get(firstPage).total_count
        /\ Get(response).body.incomplete_results = Get(firstPage).incomplete_results

\* A successful answer to a search in which a later page reported other
\* metadata than the first.
C9_Witness ==
    /\ Answered200
    /\ laterDiffers
    /\ Len(fetched) >= 2

\* C10: when the sort key is not created, the items of a successful answer
\* are the items of the fetched pages, one page after the other in page
\* order, and there are at most 1000 of them.
C10_Accumulation ==
    (Answered200 /\ SortOf(query) # "created") =>
        /\ Ids(Get(response).body.items)
              = Flatten([p \in 1..Len(fetched) |-> Ids(PageItems(p, fetched[p]))])
        /\ Len(Get(response).body.items) <= 1000

\* Pages of 100, 100 and 50 items have been answered with 250 items.
C10_Witness ==
    /\ Answered200
    /\ SortOf(query) # "created"
    /\ fetched = <<100, 100, 50>>
    /\ Len(Get(response).body.items) = 250

----------------------------------------------------------------------------
(* Properties of the sort by creation time (server) *)

\* The items upstream returned, in the order they were accumulated.
Accumulated == Flatten([p \in 1..Len(fetched) |-> PageItems(p, fetched[p])])

\* The ids of the items of its created at time t, in their order in its.
IdsCreatedAt(its, t) ==
    Ids(SelectSeq(its, LAMBDA r : DateGetTime(r.created_at) = t))

\* C11: when the sort key is created, no page request carries a sort
\* parameter, and the items of a successful answer are the accumulated
\* items, each once, in ascending creation time for asc and descending
\* otherwise, items of equal creation time in their accumulated order.
C11_SortByCreated ==
    SortOf(query) = "created" =>
        /\ \A i \in 1..Len(SearchCalls) : IsNull(SearchCalls[i].sort)
        /\ Answered200 =>
             LET out == Get(response).body.items
                 acc == Accumulated
                 Time(i) == DateGetTime(out[i].created_at)
             IN  /\ Len(out) = Len(acc)
                 /\ \A i \in 1..(Len(out) - 1) :
                      IF OrderOf(query) = "asc" THEN Time(i) <= Time(i + 1)
                      ELSE Time(i) >= Time(i + 1)
                 /\ \A t \in {DateGetTime(CreatedDates[k]) : k \in 1..Len(CreatedDates)} :
                      IdsCreatedAt(out, t) = IdsCreatedAt(acc, t)

\* An ascending sort by creation time of two pages has been answered; the
\* second item returned is not the second one accumulated.
C11_Witness ==
    /\ Answered200
    /\ SortOf(query) = "created"
    /\ OrderOf(query) = "asc"
    /\ fetched = <<100, 50>>
    /\ Get(response).body.items[2].id # 2

----------------------------------------------------------------------------
(* Properties of the handler's answers (server) *)

\* The request names no filter, or only a topics value made of commas and
\* blanks.
EmptyRequest ==
    \A k \in DOMAIN query \ {"sort", "order"} :
        \/ query[k] = << >>
        \/ k = "topics" /\ \A i \in 1..Len(query[k]) : query[k][i] \in {" ", ","}

\* C12: a request whose filter fields build an empty query is answered
\* 400 with an error message, and no upstream call is made for it, neither
\* a page request nor the rate-limit read.
C12_EmptyQuery ==
    (EmptyRequest /\ pc # "idle") =>
        /\ calls = << >>
        /\ pc \in {"start", "done"}
        /\ pc = "done" =>
             /\ ~IsNull(response)
             /\ Get(response).status = 400
             /\ Get(response).body.error # ""

\* A request whose only filter is a topics value without a topic has been
\* answered.
C12_Witness ==
    /\ pc = "done"
    /\ "topics" \in DOMAIN query
    /\ EmptyRequest
    /\ Get(response).status = 400

----------------------------------------------------------------------------
(* Properties of the query builder (server) *)

\* The query string handed to upstream, once the handler has built one.
BuiltQuery == calls[1].q

\* Its space-separated tokens.
Tokens == Split(BuiltQuery, " ")

\* The scalar qualifiers in their documented order.
ScalarOrder == <<"user", "org", "language", "created", "pushed", "size",
                 "stars", "forks", "license", "is", "archived", "fork">>

\* Whether s starts with the characters of pre.
StartsWith(s, pre) == Len(s) >= Len(pre) /\ SubSeq(s, 1, Len(pre)) = pre

\* The positions in the token list toks of the token `k:v`.
PositionsOf(toks, k, v) == {i \in 1..Len(toks) : toks[i] = KeyChars(k) \o <<":">> \o v}

\* C13: in the built query every non-empty scalar field contributes exactly
\* one token field:value and an empty one none, the tokens stand in the
\* fixed order of the fields, and a non-empty free-text query comes first;
\* user torvalds with language c builds "user:torvalds language:c".
C13_ScalarQualifiers ==
    pc = "page" =>
        LET toks == Tokens
            given == {n \in 1..Len(ScalarOrder) : ScalarOrder[n] \in DOMAIN query}
            at == [n \in given |-> PositionsOf(toks, ScalarOrder[n], query[ScalarOrder[n]])]
        IN  /\ \A n \in given : Cardinality(at[n]) = 1
            /\ \A n \in (1..Len(ScalarOrder)) \ given :
                 \A i \in 1..Len(toks) :
                    ~StartsWith(toks[i], KeyChars(ScalarOrder[n]) \o <<":">>)
            /\ \A m, n \in given :
                 m < n => \A i \in at[m], j \in at[n] : i < j
            /\ "query" \in DOMAIN query => toks[1] = query["query"]
            /\ "topics" \notin DOMAIN query
                 => Len(toks) = Cardinality(DOMAIN query \ {"sort", "order"})
            /\ DOMAIN query \ {"sort", "order"} = {"user", "language"}
                 => BuiltQuery = <<"u", "s", "e", "r", ":", "t", "o", "r", "v", "a", "l",
                                   "d", "s", " ", "l", "a", "n", "g", "u", "a", "g", "e",
                                   ":", "c">>

\* The query of a request with a free-text query, a user, a license and a
\* fork value and nothing else has been built.
C13_Witness ==
    /\ pc = "page"
    /\ DOMAIN query \ {"sort", "order"} = {"query", "user", "license", "fork"}
    /\ Len(Tokens) = 4

\* The distinct topics of a topics field: its comma-separated entries,
\* trimmed, the empty ones left out.
DistinctTopics(topics) ==
    {Trim(Split(topics, ",")[i]) : i \in 1..Len(Split(topics, ","))} \ {<< >>}

\* C14: the built query holds exactly one token topic:value for each distinct
\* trimmed non-empty entry of the topics field, and no other topic token.
C14_TopicQualifiers ==
    (pc = "page" /\ "topics" \in DOMAIN query) =>
        LET toks == Tokens
            topicTokens == {i \in 1..Len(toks) : StartsWith(toks[i], KeyChars("topic") \o <<":">>)}
        IN  /\ \A t \in DistinctTopics(query["topics"]) :
                 Cardinality(PositionsOf(toks, "topic", t)) = 1
            /\ Cardinality(topicTokens) = Cardinality(DistinctTopics(query["topics"]))

----------------------------------------------------------------------------
(* Properties of the handler's failures (server) *)

\* C15: when a page request fails, the handler answers with the failure's
\* numeric status, or 500 if it has none, and with its message; the answer
\* carries no items; and the failed request is the last upstream call: the
\* page is not retried, no later page and no rate limit is requested.
C15_UpstreamFailure ==
    [][\A err \in UpstreamErrors :
         PageError(err) =>
            /\ Get(response').status = IF IsNull(err.status) THEN 500 ELSE Get(err.status)
            /\ Get(response').body.status = Get(response').status
            /\ err.message # "" => Get(response').body.error = err.message
            /\ "items" \notin DOMAIN Get(response').body
            /\ calls' = calls
            /\ Len(SearchCalls') = Len(fetched') + 1
            /\ \A i \in 1..Len(calls') : calls'[i].kind # "rate"
            /\ pc' = "done"]_vars

\* The third page request failed with status 403 and has been answered.
C15_Witness ==
    /\ pc = "done"
    /\ ~IsNull(response)
    /\ Get(response).status = 403
    /\ fetched = <<100, 100>>
    /\ Len(SearchCalls) = 3

\* C16: the rate limit is requested only once every page request has
\* succeeded and the paging has ended, and it is the last upstream call;
\* whether it succeeds or fails the answer is 200 with the total count, the
\* incomplete flag and the items the paging produced, and when it fails
\* rate_limit is null.
C16_RateLimitBestEffort ==
    [][/\ \A i \in 1..Len(calls') :
            calls'[i].kind = "rate" =>
               /\ i = Len(calls')
               /\ Len(SearchCalls') = Len(fetched')
               /\ Len(fetched') > 0
               /\ fetched'[Len(fetched')] < 100 \/ Len(fetched') = 10
       /\ (RateOk \/ RateError) =>
            /\ Get(response').status = 200
            /\ Get(response').body.total_count = totalCount
            /\ Get(response').body.incomplete_results = incompleteResults
            /\ Get(response').body.items = trimmed
            /\ calls' = calls
       /\ RateError => IsNull(Get(response').body.rate_limit)
       /\ RateOk => ~IsNull(Get(response').body.rate_limit)]_vars

\* A search of two pages has been answered 200 without a rate limit.
C16_Witness ==
    /\ Answered200
    /\ IsNull(Get(response).body.rate_limit)
    /\ fetched = <<100, 50>>
    /\ Len(Get(response).body.items) = 150

----------------------------------------------------------------------------
(* Properties of overlapping searches (App) *)

\* C17: whenever a response resolves successfully, the displayed results
\* and the cache entry become those of that response and of the request it
\* answers, whatever other searches are outstanding or have resolved
\* before; so of two overlapping searches the one that resolves last wins.
C17_LastResponseWins ==
    [][FetchOk =>
         \E req \in BagToSet(inflight), json \in OkResponses :
            /\ inflight' = inflight (-) SetToBag({req})
            /\ state'.results = json.items
            /\ state'.totalCount = json.total_count
            /\ state'.status = Some(200)
            /\ state'.rateLimit = json.rate_limit
            /\ state'.incompleteResults = json.incomplete_results
            /\ IsNull(state'.error)
            /\ ~IsNull(cache')
            /\ Get(cache').allResults = json.items
            /\ Get(cache').totalCount = json.total_count
            /\ Get(cache').filters = req.filters]_vars

\* Two searches for different queries overlapped and both have resolved;
\* the entry on display and in the cache is the one of the search that was
\* triggered first, for filters other than the current ones.
C17_Witness ==
    /\ inflight = EmptyBag
    /\ fetchCount = 2
    /\ ~IsNull(cache)
    /\ Get(cache).filters # OmitSort(filters)
    /\ state.results = Get(cache).allResults
    /\ ~state.loading
    /\ IsNull(state.error)

\* C18: in every reachable state the loading flag is true exactly when at
\* least one network search is outstanding.
C18_LoadingIffInFlight == state.loading <=> inflight # EmptyBag

----------------------------------------------------------------------------
(* Properties of the unrecognized sort keys (App) *)

\* C19: a search served from the cache with the sort key empty or
\* help-wanted-issues displays the cached items in the order in which
\* they were stored, whatever the order value.
C19_UnrecognizedSort ==
    [][(SearchFromCache /\ filters["sort"] \in {"", "help-wanted-issues"})
          => state'.results = Get(cache).allResults]_vars

\* The cached items are on display under help-wanted-issues ascending,
\* after a single request.
C19_Witness ==
    /\ canUseCache
    /\ filters["sort"] = "help-wanted-issues"
    /\ filters["order"] = "asc"
    /\ fetchCount = 1
    /\ inflight = EmptyBag
    /\ Len(state.results) = 3
    /\ state.results = Get(cache).allResults

----------------------------------------------------------------------------
(* Properties of the cache entry (App) *)

\* C20: the cache entry is only ever written as a whole, by the arrival of
\* a response, with the non-sort filters of the request that response
\* answers and with the items, total count, status, rate limit and
\* incomplete flag of that one response; otherwise it is left alone or
\* removed.  So the filters of an entry are always those its data was
\* requested with, whatever the filters are by then.
C20_CacheSelfConsistent ==
    [][cache' # cache =>
         \/ IsNull(cache')
         \/ \E req \in BagToSet(inflight), json \in OkResponses :
               /\ inflight' = inflight (-) SetToBag({req})
               /\ Get(cache').filters = req.filters
               /\ Get(cache').allResults = json.items
               /\ Get(cache').totalCount = json.total_count
               /\ Get(cache').status = Some(json.status)
               /\ Get(cache').rateLimit = json.rate_limit
               /\ Get(cache').incompleteResults = json.incomplete_results]_vars

\* The entry was supplied by a request that was in flight when Clear was
\* pressed, and its filters are not the current ones.
C20_Witness ==
    /\ ~IsNull(cache)
    /\ cacheStale
    /\ Get(cache).filters # OmitSort(filters)

----------------------------------------------------------------------------
(* Properties of the displayed results (App) *)

\* C21: in every reachable state the displayed result list is empty or a
\* permutation of the item list of the cache entry; results are never on
\* display while the entry is absent.
C21_ResultsFromCache ==
    \/ state.results = << >>
    \/ /\ ~IsNull(cache)
       /\ IsPermutation(state.results, Get(cache).allResults)

\* After two requests, a re-sorted view of the entry is on display: the
\* list shown is not in the entry's order.
C21_Witness ==
    /\ fetchCount = 2
    /\ ~IsNull(cache)
    /\ state.results # << >>
    /\ state.results # Get(cache).allResults

============================================================================
